---- MODULE Spec2Model ----
(***************************************************************************)
(* Content credibility pipeline of the TruthGuard backend                   *)
(* (controllers/checkController.js): retryWithTimeout, the three external   *)
(* analyzers, and checkContent, which joins them and fuses the scores.      *)
(*                                                                          *)
(* One step of the model is one turn of the Node.js event loop: the arrival *)
(* of a request, the settling of an HTTP call, or the firing of a timer,    *)
(* together with every continuation (await, catch, Promise.all) that the    *)
(* turn runs to completion.                                                 *)
(***************************************************************************)
EXTENDS Integers, Sequences, FiniteSets, TLC

VARIABLES
    rc,         \* rc[c]: the activation of retryWithTimeout for caller c
    pc,         \* position of checkContent: idle, awaiting, completed, failed, rejected
    content,    \* req.body.content of the submission
    mistral,    \* the analyzeMistral call
    news,       \* the verifyWithNewsAPI call
    responses,  \* what was sent through res, in order
    call        \* the latest call of a helper on its own: its arguments and its value

vars == <<rc, pc, content, mistral, news, responses, call>>

-----------------------------------------------------------------------------
(* Bounds of the model *)

MaxRetriesBound == 5    \* retryWithTimeout is explored for maxRetries in 1..MaxRetriesBound
MaxArticles == 1        \* the news index answers with at most this many articles
MaxWords == 2           \* calculateSimilarity is explored for texts of at most this many words
MaxChunks == 3          \* calculateTextComplexity is explored for texts of at most this many chunks
MaxPhrases == 3         \* extractNewsSource is explored for texts of at most this many phrases

-----------------------------------------------------------------------------
(* Program constants *)

DefaultMaxRetries == 3
DefaultTimeout == 30000
BackoffBase == 1000
BackoffCap == 5000
PageSize == 5
MatchedLimit == 3
KeywordLimit == 5
KeywordMinLength == 4
ComplexWordMinLength == 10

-----------------------------------------------------------------------------
(* Values *)

Undefined == [kind |-> "undefined"]

\* No helper has been called on its own yet.
NoCall == [fn |-> "none"]

\* The two retryWithTimeout calls of checkContent, named after the variables
\* that receive their results.
Callers == {"newsClassification", "factCheck"}

Min(a, b) == IF a < b THEN a ELSE b
Max(a, b) == IF a > b THEN a ELSE b

RECURSIVE Pow2(_)
Pow2(n) == IF n = 0 THEN 1 ELSE 2 * Pow2(n - 1)

-----------------------------------------------------------------------------
(* Classifier responses: response.data of the zero-shot model, scores in    *)
(* thousandths.                                                             *)

TypeResponses ==
    { [labels |-> <<"news article", "opinion piece", "social media post", "advertisement", "blog post">>,
       scores |-> <<900, 40, 30, 20, 10>>],
      [labels |-> <<"opinion piece", "news article", "blog post", "social media post", "advertisement">>,
       scores |-> <<555, 300, 100, 30, 15>>] }

FactResponses ==
    { [labels |-> <<"factual", "misleading", "false", "opinion", "unverified">>,
       scores |-> <<700, 100, 50, 100, 50>>],
      [labels |-> <<"false", "misleading", "factual", "opinion", "unverified">>,
       scores |-> <<600, 250, 50, 50, 50>>] }

ResponsesOf(c) == IF c = "newsClassification" THEN TypeResponses ELSE FactResponses

\* How an axios.post of a classifier call ends by itself: a response, or a
\* network / HTTP error.
HFOutcomes(c) ==
    { [kind |-> "response", data |-> d] : d \in ResponsesOf(c) }
      \cup { [kind |-> "error", message |-> "Network Error"] }

-----------------------------------------------------------------------------
(* retryWithTimeout *)

IdleCall ==
    [ state      |-> "idle",      \* idle, await, backoff, returned, thrown
      maxRetries |-> 0,
      timeout    |-> 0,
      i          |-> 0,           \* the loop variable
      lastError  |-> Undefined,
      timers     |-> {},          \* attempts whose timeout timer is armed
      aborted    |-> {},          \* attempts whose controller.signal has aborted
      backoff    |-> 0,           \* delay of the armed backoff timer, 0 when none
      result     |-> Undefined,   \* the value returned or the error thrown
      attempts   |-> <<>>,        \* history: the outcome of each apiCall invocation
      waited     |-> <<>> ]       \* history: the backoff delays that have elapsed

\* Variant without the cap of 5000 ms.
BackoffDelayUncapped(i) == BackoffBase * Pow2(i)

\* Math.min(1000 * Math.pow(2, i), 5000)
BackoffDelay(i) == Min(BackoffBase * Pow2(i), BackoffCap)

\* Loop body up to the await: new AbortController, setTimeout(abort, timeout),
\* apiCall(controller.signal).
BeginAttempt(r) ==
    [r EXCEPT !.state = "await",
              !.timers = @ \cup {r.i},
              !.attempts = Append(@, [outcome |-> "pending"])]

\* retryWithTimeout(apiCall, maxRetries, timeout) up to its first await.
\* With maxRetries = 0 the loop body never runs and lastError is thrown.
StartCall(maxRetries, timeout) ==
    LET r == [IdleCall EXCEPT !.maxRetries = maxRetries, !.timeout = timeout]
    IN  IF 0 < maxRetries THEN BeginAttempt(r)
        ELSE [r EXCEPT !.state = "thrown", !.result = r.lastError]

\* const response = await apiCall(...); clearTimeout(id); return response;
AttemptSucceeded(r, data) ==
    LET response == [kind |-> "response", attempt |-> r.i, data |-> data]
    IN  [r EXCEPT !.state = "returned",
                  !.timers = @ \ {r.i},
                  !.result = response,
                  !.attempts[r.i + 1] = [outcome |-> "ok", value |-> response]]

\* Whether the catch block waits before the next attempt.
HasNextAttempt(r) == r.i < r.maxRetries - 1

\* Variant that keeps the first error seen instead of the last one.
AttemptFailedKeepsFirst(r, message) ==
    LET error == [kind |-> "error", attempt |-> r.i, message |-> message]
        kept  == IF r.lastError = Undefined THEN error ELSE r.lastError
        seen  == [r EXCEPT !.lastError = kept,
                           !.attempts[r.i + 1] = [outcome |-> "failed", value |-> error]]
    IN  IF r.i < r.maxRetries - 1
        THEN [seen EXCEPT !.state = "backoff", !.backoff = Min(BackoffBase * Pow2(r.i), BackoffCap)]
        ELSE [seen EXCEPT !.state = "thrown", !.i = r.i + 1, !.result = kept]

\* catch (error): lastError = error; backoff unless this was the last attempt,
\* in which case the loop ends and lastError is thrown.  The attempt's timeout
\* timer is not cleared on this path.
AttemptFailed(r, message) ==
    LET error == [kind |-> "error", attempt |-> r.i, message |-> message]
        seen  == [r EXCEPT !.lastError = error,
                           !.attempts[r.i + 1] = [outcome |-> "failed", value |-> error]]
    IN  IF HasNextAttempt(r)
        THEN [seen EXCEPT !.state = "backoff", !.backoff = BackoffDelay(r.i)]
        ELSE [seen EXCEPT !.state = "thrown", !.i = r.i + 1, !.result = error]

\* The timeout timer of attempt k fires: controller.abort().  axios rejects the
\* request that carries the signal, if it is still in flight.
TimeoutFired(r, k) ==
    LET fired == [r EXCEPT !.timers = @ \ {k}, !.aborted = @ \cup {k}]
    IN  IF r.state = "await" /\ r.i = k
        THEN AttemptFailed(fired, "canceled")
        ELSE fired

\* The backoff timer fires: the loop goes on with i + 1.
BackoffFired(r) ==
    BeginAttempt([r EXCEPT !.i = r.i + 1,
                           !.backoff = 0,
                           !.waited = Append(@, r.backoff)])

\* The promise an activation of retryWithTimeout returned.
CallPromise(r) ==
    CASE r.state = "returned" -> "fulfilled"
      [] r.state = "thrown"   -> "rejected"
      [] OTHER                -> "pending"

-----------------------------------------------------------------------------
(* JavaScript numbers.  Scores are rationals p/q with q > 0; NaN is a       *)
(* distinguished value that every arithmetic operation propagates.          *)

NaN == -1000000

IsNaN(x) == x = NaN

\* Math.round(p / q): the nearest integer, halves towards plus infinity.
Round(p, q) == IF IsNaN(p) THEN NaN ELSE (2 * p + q) \div (2 * q)

\* Math.max(0, Math.min(100, x))
Clamp(x) == IF IsNaN(x) THEN NaN ELSE Max(0, Min(100, x))

Plus(a, b) == IF IsNaN(a) \/ IsNaN(b) THEN NaN ELSE a + b
Minus(a, b) == IF IsNaN(a) \/ IsNaN(b) THEN NaN ELSE a - b
Times(k, a) == IF IsNaN(a) THEN NaN ELSE k * a

-----------------------------------------------------------------------------
(* Texts are sequences of whitespace-separated words; the empty sequence    *)
(* stands for the empty string and for an absent (null) text, which the     *)
(* code treats alike through its truthiness tests.                          *)

NoContent == <<>>

\* Variant of the validation that lets the empty text through.
FalsyNever(text) == FALSE

\* !content
Falsy(text) == text = NoContent

ToLowerCase(w) ==
    CASE w = "Go" -> "go"
      [] w = "Breaking" -> "breaking"
      [] OTHER -> w

WordLength(w) ==
    CASE w \in {"go", "Go"} -> 2
      [] w = "news" -> 4
      [] w \in {"breaking", "Breaking"} -> 8

Range(s) == { s[k] : k \in 1..Len(s) }

Take(s, n) == SubSeq(s, 1, Min(n, Len(s)))

LowerWords(s) == [k \in 1..Len(s) |-> ToLowerCase(s[k])]

\* calculateSimilarity(str1, str2) as the fraction <<numerator, denominator>>:
\* intersection is words1 filtered by membership in words2 (an array, so a
\* repeated word of str1 counts each time), union is a Set.
calculateSimilarity(str1, str2) ==
    IF str1 = <<>> \/ str2 = <<>> THEN <<0, 1>>
    ELSE LET words1 == LowerWords(str1)
             words2 == LowerWords(str2)
             InWords2(w) == w \in Range(words2)
             intersection == SelectSeq(words1, InWords2)
             union == Range(words1) \cup Range(words2)
         IN  <<Len(intersection), Cardinality(union)>>

\* Math.max on two fractions.
MaxFraction(a, b) == IF a[1] * b[2] >= b[1] * a[2] THEN a ELSE b

RECURSIVE MaxOfFractions(_)
MaxOfFractions(s) ==
    IF Len(s) = 1 THEN s[1] ELSE MaxFraction(s[1], MaxOfFractions(Tail(s)))

-----------------------------------------------------------------------------
(* verifyWithNewsAPI *)

\* content.split(/\s+/).filter(word => word.length > 4).slice(0, 5)
Keywords(text) ==
    LET Long(w) == WordLength(w) > KeywordMinLength
    IN  Take(SelectSeq(text, Long), KeywordLimit)

\* Articles the news index may answer with.  An article whose source is
\* absent makes article.source.name a TypeError.
Articles ==
    { [title |-> <<"breaking">>, description |-> <<>>, hasSource |-> TRUE],
      [title |-> <<"Go", "news">>, description |-> <<"go">>, hasSource |-> TRUE],
      [title |-> <<"go">>, description |-> <<>>, hasSource |-> FALSE] }

RECURSIVE SeqsUpTo(_, _)
SeqsUpTo(S, n) ==
    IF n = 0 THEN { <<>> }
    ELSE LET shorter == SeqsUpTo(S, n - 1)
         IN  shorter \cup { Append(s, x) : s \in shorter, x \in S }

\* How the axios.get of the news search ends: a network / HTTP error, or a
\* body with a status and (unless the body is malformed) an articles array.
NewsOutcomes ==
    { [kind |-> "error", message |-> "Network Error"] }
      \cup { [kind |-> "response", status |-> "error", hasArticles |-> TRUE, articles |-> <<>>],
             [kind |-> "response", status |-> "ok", hasArticles |-> FALSE, articles |-> <<>>] }
      \cup { [kind |-> "response", status |-> "ok", hasArticles |-> TRUE, articles |-> a] :
                a \in SeqsUpTo(Articles, Min(MaxArticles, PageSize)) }

\* The value of the catch block of verifyWithNewsAPI.
NewsCaught(message) ==
    [isVerified |-> FALSE, confidence |-> 0, matchedArticles |-> <<>>, error |-> message]

\* The value after the if of verifyWithNewsAPI.
NewsNothingFound ==
    [isVerified |-> FALSE, confidence |-> 0, matchedArticles |-> <<>>, error |-> ""]

\* The return value of verifyWithNewsAPI(text) given how its axios.get ended.
\* Every exception is caught inside the function.
verifyWithNewsAPI(text, outcome) ==
    IF outcome.kind = "error" THEN NewsCaught(outcome.message)
    ELSE IF outcome.status # "ok" THEN NewsNothingFound
    ELSE IF ~outcome.hasArticles THEN NewsCaught("TypeError")
    ELSE IF Len(outcome.articles) = 0 THEN NewsNothingFound
    ELSE LET articles == outcome.articles
             similarityScores ==
                 [k \in 1..Len(articles) |->
                     MaxFraction(calculateSimilarity(text, articles[k].title),
                                 calculateSimilarity(text, articles[k].description))]
             maxSimilarity == MaxOfFractions(similarityScores)
             matched == Take(articles, MatchedLimit)
         IN  IF \E k \in 1..Len(matched) : ~matched[k].hasSource
             THEN NewsCaught("TypeError")
             ELSE [isVerified |-> 10 * maxSimilarity[1] > 6 * maxSimilarity[2],
                   confidence |-> Round(100 * maxSimilarity[1], maxSimilarity[2]),
                   matchedArticles |-> [k \in 1..Len(matched) |-> matched[k].title],
                   error |-> ""]

-----------------------------------------------------------------------------
(* analyzeMistral *)

\* How the single axios.post of analyzeMistral ends: the parsed JSON object,
\* a network / HTTP error, or a body that JSON.parse rejects.
MistralOutcomes ==
    { [kind |-> "response", data |-> [credibilityScore |-> 80, truthScore |-> 90, confidence |-> 71]],
      [kind |-> "error", message |-> "Network Error"],
      [kind |-> "error", message |-> "SyntaxError"] }

IdleRequest == [state |-> "idle", calls |-> 0, value |-> Undefined]

\* verifyWithNewsAPI before it is called: q is the keyword query it sends,
\* response what axios.get gave back.
IdleNews == [state |-> "idle", calls |-> 0, q |-> <<>>, response |-> Undefined, value |-> Undefined]

-----------------------------------------------------------------------------
(* The fusion step of checkContent *)

RetryAfter == 5

\* labels.indexOf(label): 0-based, -1 when absent.
IndexOf(labels, label) ==
    IF \E k \in 1..Len(labels) : labels[k] = label
    THEN (CHOOSE k \in 1..Len(labels) :
             labels[k] = label /\ \A j \in 1..(k - 1) : labels[j] # label) - 1
    ELSE -1

\* scores[index] used as a number: scores[-1] is undefined, which arithmetic
\* turns into NaN.
ScoreAt(scores, index) == IF index < 0 THEN NaN ELSE scores[index + 1]

getReliabilityLevel(score) ==
    IF IsNaN(score) THEN "unreliable"
    ELSE IF score >= 80 THEN "highly reliable"
    ELSE IF score >= 60 THEN "reliable"
    ELSE IF score >= 40 THEN "moderately reliable"
    ELSE IF score >= 20 THEN "somewhat unreliable"
    ELSE "unreliable"

\* Math.round((score1 * 0.6) + (score2 * 0.4))
combineScores(score1, score2) == Round(Plus(Times(6, score1), Times(4, score2)), 10)

\* Math.round(factual * 100 - misleading * 50 - false * 100), scores in thousandths.
LocalCredibility(factual, misleading, false) ==
    Round(Minus(Minus(Times(100, factual), Times(50, misleading)), Times(100, false)), 1000)

\* Math.round(factual * 100 - false * 100), scores in thousandths.
LocalTruth(factual, false) ==
    Round(Minus(Times(100, factual), Times(100, false)), 1000)

\* combinedResult of checkContent, the fields that carry scores.
CombinedResult(typeData, factData, mistralResult, newsApiResult) ==
    LET contentConfidence == typeData.scores[1]
        scores == factData.scores
        labels == factData.labels
        factual == ScoreAt(scores, IndexOf(labels, "factual"))
        misleading == ScoreAt(scores, IndexOf(labels, "misleading"))
        false == ScoreAt(scores, IndexOf(labels, "false"))
        credibilityScore == LocalCredibility(factual, misleading, false)
        truthScore == LocalTruth(factual, false)
        confidence == Round(100 * contentConfidence, 1000)
        credibilityMetrics ==
            [credibilityScore |-> Clamp(Plus(credibilityScore, 50)),
             truthScore |-> Clamp(Plus(truthScore, 50)),
             label |-> getReliabilityLevel(credibilityScore)]
    IN  [contentType |-> typeData.labels[1],
         confidence |-> confidence,
         credibilityMetrics |-> credibilityMetrics,
         mistralAnalysis |-> mistralResult,
         newsVerification |->
             [isVerified |-> newsApiResult.isVerified,
              confidence |-> newsApiResult.confidence,
              matchedArticles |-> newsApiResult.matchedArticles,
              verdict |-> IF newsApiResult.isVerified THEN "REAL" ELSE "POTENTIALLY FAKE"],
         combinedMetrics |->
             [credibilityScore |->
                  combineScores(credibilityMetrics.credibilityScore, mistralResult.credibilityScore),
              truthScore |->
                  combineScores(credibilityMetrics.truthScore, mistralResult.truthScore),
              confidence |-> Round(Plus(confidence, mistralResult.confidence), 2),
              newsReliability |-> newsApiResult.confidence]]

\* res.status(400).json({ error: 'Content is required' })
InvalidInputResponse == [status |-> 400, body |-> [error |-> "Content is required"]]

\* Variant of the catch block that answers with what was computed so far.
AnalysisFailedPartial(message) ==
    [status |-> 200, body |-> [error |-> "Analysis failed", details |-> message]]

\* The catch block of checkContent.
AnalysisFailedResponse(message) ==
    [status |-> 500,
     body |-> [error |-> "Analysis failed", details |-> message, retryAfter |-> RetryAfter]]

\* res.json(combinedResult)
ReportResponse(report) == [status |-> 200, body |-> report]

-----------------------------------------------------------------------------
(* The join of checkContent *)

\* Variant that settles with the first input that settles (Promise.race).
PromiseRace(states) ==
    IF \E k \in 1..Len(states) : states[k] = "rejected" THEN "rejected"
    ELSE IF \E k \in 1..Len(states) : states[k] = "fulfilled" THEN "fulfilled"
    ELSE "pending"

\* Promise.all over promises in the given states: rejected as soon as one is
\* rejected, fulfilled when all are fulfilled.
PromiseAll(states) ==
    IF \E k \in 1..Len(states) : states[k] = "rejected" THEN "rejected"
    ELSE IF \A k \in 1..Len(states) : states[k] = "fulfilled" THEN "fulfilled"
    ELSE "pending"

\* The promise checkContent awaits: Promise.all([Promise.all([type, fact]),
\* analyzeMistral(content), verifyWithNewsAPI(content)]).
Joined(calls, m, n) ==
    PromiseAll(<<PromiseAll(<<CallPromise(calls["newsClassification"]),
                              CallPromise(calls["factCheck"])>>),
                 m.state, n.state>>)

\* The reason the awaited promise is rejected with.
RejectionMessage(calls, m) ==
    IF calls["newsClassification"].state = "thrown" THEN calls["newsClassification"].result.message
    ELSE IF calls["factCheck"].state = "thrown" THEN calls["factCheck"].result.message
    ELSE m.value.message

\* What checkContent does after its await, given the calls as they now are:
\* the continuation runs in the same turn in which the awaited promise settles.
\* Reading a result that is not there is a TypeError, which the catch handles.
Resume(calls, m, n) ==
    LET joined == Joined(calls, m, n)
    IN  IF pc # "awaiting" \/ joined = "pending"
        THEN /\ pc' = pc
             /\ responses' = responses
        ELSE IF joined = "rejected"
        THEN /\ pc' = "failed"
             /\ responses' = Append(responses, AnalysisFailedResponse(RejectionMessage(calls, m)))
        ELSE IF \/ \E c \in Callers : calls[c].state # "returned"
                \/ m.state # "fulfilled"
                \/ n.state # "fulfilled"
        THEN /\ pc' = "failed"
             /\ responses' = Append(responses, AnalysisFailedResponse("TypeError"))
        ELSE /\ pc' = "completed"
             /\ responses' = Append(responses,
                    ReportResponse(CombinedResult(calls["newsClassification"].result.data,
                                                  calls["factCheck"].result.data,
                                                  m.value, n.value)))

-----------------------------------------------------------------------------
(* Submissions *)

\* The empty text, a text without a word longer than four characters, and a
\* text that repeats a word.
Contents == { NoContent, <<"go", "news">>, <<"Breaking", "breaking">> }

Init ==
    /\ rc = [c \in Callers |-> IdleCall]
    /\ pc = "idle"
    /\ content = NoContent
    /\ mistral = IdleRequest
    /\ news = IdleNews
    /\ responses = <<>>
    /\ call = NoCall

\* A request reaches checkContent.  Validation and the dispatch of all four
\* calls up to their first await happen in the same turn.
CheckContent(text) ==
    /\ pc = "idle"
    /\ \A c \in Callers : rc[c].state = "idle"
    /\ content' = text
    /\ IF Falsy(text)
       THEN /\ pc' = "rejected"
            /\ responses' = Append(responses, InvalidInputResponse)
            /\ UNCHANGED <<rc, mistral, news, call>>
       ELSE /\ pc' = "awaiting"
            /\ rc' = [c \in Callers |-> StartCall(DefaultMaxRetries, DefaultTimeout)]
            /\ mistral' = [state |-> "pending", calls |-> 1, value |-> Undefined]
            /\ news' = [IdleNews EXCEPT !.state = "pending", !.calls = 1, !.q = Keywords(text)]
            /\ responses' = responses
            /\ call' = call

\* retryWithTimeout called on its own with the operation of caller c.
CallRetryWithTimeout(c, maxRetries) ==
    /\ pc = "idle"
    /\ \A d \in Callers : rc[d].state = "idle"
    /\ rc' = [rc EXCEPT ![c] = StartCall(maxRetries, DefaultTimeout)]
    /\ UNCHANGED <<pc, content, mistral, news, responses, call>>

\* The request of the attempt in flight ends by itself.
HFSettle(c, outcome) ==
    /\ rc[c].state = "await"
    /\ rc' = [rc EXCEPT ![c] = IF outcome.kind = "response"
                               THEN AttemptSucceeded(@, outcome.data)
                               ELSE AttemptFailed(@, outcome.message)]
    /\ Resume(rc', mistral, news)
    /\ UNCHANGED <<content, mistral, news, call>>

\* The timeout timer of attempt k fires.
TimeoutFire(c, k) ==
    /\ k \in rc[c].timers
    /\ rc' = [rc EXCEPT ![c] = TimeoutFired(@, k)]
    /\ Resume(rc', mistral, news)
    /\ UNCHANGED <<content, mistral, news, call>>

\* The backoff timer fires and the next attempt begins.
BackoffFire(c) ==
    /\ rc[c].state = "backoff"
    /\ rc' = [rc EXCEPT ![c] = BackoffFired(@)]
    /\ UNCHANGED <<pc, content, mistral, news, responses, call>>

\* The axios.post of analyzeMistral ends; its catch rethrows.
MistralSettle(outcome) ==
    /\ mistral.state = "pending"
    /\ mistral' = IF outcome.kind = "response"
                  THEN [mistral EXCEPT !.state = "fulfilled", !.value = outcome.data]
                  ELSE [mistral EXCEPT !.state = "rejected",
                                       !.value = [kind |-> "error", message |-> outcome.message]]
    /\ Resume(rc, mistral', news)
    /\ UNCHANGED <<rc, content, news, call>>

\* The axios.get of verifyWithNewsAPI ends.
NewsSettle(outcome) ==
    /\ news.state = "pending"
    /\ news' = [news EXCEPT !.state = "fulfilled",
                             !.response = outcome,
                             !.value = verifyWithNewsAPI(content, outcome)]
    /\ Resume(rc, mistral, news')
    /\ UNCHANGED <<rc, content, mistral, call>>

Next ==
    \/ \E text \in Contents : CheckContent(text)
    \/ \E c \in Callers : \E outcome \in HFOutcomes(c) : HFSettle(c, outcome)
    \/ \E c \in Callers : \E k \in 0..(DefaultMaxRetries - 1) : TimeoutFire(c, k)
    \/ \E c \in Callers : BackoffFire(c)
    \/ \E outcome \in MistralOutcomes : MistralSettle(outcome)
    \/ \E outcome \in NewsOutcomes : NewsSettle(outcome)

Spec == Init /\ [][Next]_vars

\* retryWithTimeout on its own, for every maxRetries in 1..MaxRetriesBound.
NextRetry ==
    \/ \E c \in Callers : \E m \in 1..MaxRetriesBound : CallRetryWithTimeout(c, m)
    \/ \E c \in Callers : \E outcome \in HFOutcomes(c) : HFSettle(c, outcome)
    \/ \E c \in Callers : \E k \in 0..(MaxRetriesBound - 1) : TimeoutFire(c, k)
    \/ \E c \in Callers : BackoffFire(c)

SpecRetry == Init /\ [][NextRetry]_vars

-----------------------------------------------------------------------------
(* checkContent when every call is answered at its first attempt, over a     *)
(* wider range of answers                                                    *)

\* The labels checkContent looks up in the factuality response.
ExpectedLabels == {"factual", "misleading", "false", "opinion"}

\* A response without its k-th label and score.
DropAt(data, k) ==
    [labels |-> SubSeq(data.labels, 1, k - 1) \o SubSeq(data.labels, k + 1, Len(data.labels)),
     scores |-> SubSeq(data.scores, 1, k - 1) \o SubSeq(data.scores, k + 1, Len(data.scores))]

\* Factuality responses: those of FactResponses, the same with one label
\* absent, and full responses whose scores are multiples of 1/8, which
\* floating point represents exactly.
FusionFactResponses ==
    FactResponses
    \cup { DropAt(data, k) : data \in FactResponses, k \in 1..4 }
    \cup { [labels |-> <<"opinion", "factual", "misleading", "false", "unverified">>,
            scores |-> <<1000 - (factual + misleading + false), factual, misleading, false, 0>>] :
              factual \in {125, 250, 625}, misleading \in {0, 125}, false \in {0, 125} }

FusionResponsesOf(c) == IF c = "newsClassification" THEN TypeResponses ELSE FusionFactResponses

\* Assessments of the generative model.
FusionMistralData ==
    { [credibilityScore |-> credibility, truthScore |-> truth, confidence |-> 71] :
          credibility \in {80, 82}, truth \in {82, 90} }

NextFusion ==
    \/ \E text \in Contents : CheckContent(text)
    \/ \E c \in Callers : \E data \in FusionResponsesOf(c) :
           HFSettle(c, [kind |-> "response", data |-> data])
    \/ \E data \in FusionMistralData : MistralSettle([kind |-> "response", data |-> data])
    \/ \E outcome \in NewsOutcomes : NewsSettle(outcome)

SpecFusion == Init /\ [][NextFusion]_vars

-----------------------------------------------------------------------------
(* calculateTextComplexity, on texts given character by character *)

\* /\s/, /[.!?]/ and the characters that are not /\w/.
WhiteSpace == {" "}
SentenceEnd == {".", "!", "?"}
NonWord == WhiteSpace \cup SentenceEnd

\* The quotient p / q of two non-negative numbers as the pair <<p, q>>:
\* <<0, 0>> is NaN (0 / 0) and <<1, 0>> is Infinity (p / 0 with p > 0).
Quotient(p, q) == IF q = 0 THEN (IF p = 0 THEN <<0, 0>> ELSE <<1, 0>>) ELSE <<p, q>>

IsNaNQuotient(x) == x = <<0, 0>>

\* Math.min(x, 1)
MinWithOne(x) ==
    IF IsNaNQuotient(x) THEN x
    ELSE IF x[2] = 0 \/ x[1] > x[2] THEN <<1, 1>>
    ELSE x

\* x / k for a positive integer k
DividedBy(x, k) == IF x[2] = 0 THEN x ELSE <<x[1], k * x[2]>>

\* The length of the longest prefix of text without a character of Sep.
RECURSIVE PrefixLength(_, _)
PrefixLength(text, Sep) ==
    IF text = <<>> \/ Head(text) \in Sep THEN 0
    ELSE 1 + PrefixLength(Tail(text), Sep)

\* text.split(/Sep+/).filter(piece => piece.length > 0)
RECURSIVE SplitNonEmpty(_, _)
SplitNonEmpty(text, Sep) ==
    IF text = <<>> THEN <<>>
    ELSE IF Head(text) \in Sep THEN SplitNonEmpty(Tail(text), Sep)
    ELSE LET n == PrefixLength(text, Sep)
         IN  <<SubSeq(text, 1, n)>> \o SplitNonEmpty(SubSeq(text, n + 1, Len(text)), Sep)

\* words.reduce((sum, word) => sum + word.length, 0)
RECURSIVE SumOfLengths(_)
SumOfLengths(words) ==
    IF words = <<>> THEN 0 ELSE Len(Head(words)) + SumOfLengths(Tail(words))

\* therefore | however | furthermore | consequently | nevertheless
Connectives ==
    { <<"t", "h", "e", "r", "e", "f", "o", "r", "e">>,
      <<"h", "o", "w", "e", "v", "e", "r">>,
      <<"f", "u", "r", "t", "h", "e", "r", "m", "o", "r", "e">>,
      <<"c", "o", "n", "s", "e", "q", "u", "e", "n", "t", "l", "y">>,
      <<"n", "e", "v", "e", "r", "t", "h", "e", "l", "e", "s", "s">> }

\* (text.match(complexWordPattern) || []).length: between two word boundaries
\* the pattern matches a whole run of word characters, when the run has ten
\* characters or more or is one of the connectives.
ComplexWords(text) ==
    LET runs == SplitNonEmpty(text, NonWord)
    IN  Cardinality({ k \in 1..Len(runs) :
                         Len(runs[k]) >= ComplexWordMinLength \/ runs[k] \in Connectives })

\* The value is lengthScore + sentenceScore + complexityScore, that is
\* (3 * a + 3 * b + 4 * c) / 10 for the three capped quotients a, b, c.
calculateTextComplexity(text) ==
    LET words == SplitNonEmpty(text, WhiteSpace)
        sentences == SplitNonEmpty(text, SentenceEnd)
        avgWordLength == Quotient(SumOfLengths(words), Len(words))
        avgSentenceLength == Quotient(Len(words), Len(sentences))
        complexWords == ComplexWords(text)
        a == MinWithOne(DividedBy(avgWordLength, 8))
        b == MinWithOne(DividedBy(avgSentenceLength, 25))
        c == MinWithOne(Quotient(10 * complexWords, Len(words)))
    IN  IF IsNaNQuotient(a) \/ IsNaNQuotient(b) \/ IsNaNQuotient(c) THEN <<0, 0>>
        ELSE <<3 * a[1] * b[2] * c[2] + 3 * b[1] * a[2] * c[2] + 4 * c[1] * a[2] * b[2],
               10 * a[2] * b[2] * c[2]>>

-----------------------------------------------------------------------------
(* extractNewsSource.  A text is a sequence of phrases, each ending in a    *)
(* full stop; source names are given character by character.                *)

\* sourcePatterns, in the order in which forEach visits them.
PatternTypes ==
    <<"Major News Agency", "Social Media", "News Website",
      "Cited Source", "Official Source", "Local News">>

\* A match of a pattern: match[0] and match[1], <<>> when the group is absent.
Match(whole, group) == [whole |-> whole, group |-> group]

\* What content.matchAll(pattern) yields within one phrase, for the pattern of
\* the given type.
PhraseMatches(phrase, type) ==
    CASE phrase = "AP." /\ type = "Major News Agency" ->
             <<Match(<<"A", "P">>, <<>>)>>
      [] phrase = "ap." /\ type = "Major News Agency" ->
             <<Match(<<"a", "p">>, <<>>)>>
      [] phrase = "cited by 'AP'." /\ type = "Major News Agency" ->
             <<Match(<<"A", "P">>, <<>>)>>
      [] phrase = "cited by 'AP'." /\ type = "Cited Source" ->
             <<Match(<<"c", "i", "t", "e", "d", " ", "b", "y", " ", "'", "A", "P", "'">>, <<"'", "A", "P", "'">>)>>
      [] phrase = "posted on X." /\ type = "Social Media" ->
             <<Match(<<"p", "o", "s", "t", "e", "d", " ", "o", "n", " ", "X">>, <<"X">>)>>
      [] phrase = "bbc.com." /\ type = "News Website" ->
             <<Match(<<"b", "b", "c", ".", "c", "o", "m">>, <<>>)>>
      [] phrase = "statement from NATO." /\ type = "Official Source" ->
             <<Match(<<"s", "t", "a", "t", "e", "m", "e", "n", "t", " ", "f", "r", "o", "m", " ", "N", "A", "T", "O">>, <<"N", "A", "T", "O">>)>>
      [] phrase = "local news Daily." /\ type = "News Website" ->
             <<Match(<<"n", "e", "w", "s">>, <<>>)>>
      [] phrase = "local news Daily." /\ type = "Local News" ->
             <<Match(<<"l", "o", "c", "a", "l", " ", "n", "e", "w", "s", " ", "D", "a", "i", "l", "y">>, <<"D", "a", "i", "l", "y">>)>>
      [] phrase = "revealed by NATO via X." /\ type = "Cited Source" ->
             <<Match(<<"r", "e", "v", "e", "a", "l", "e", "d", " ", "b", "y", " ", "N", "A", "T", "O", " ", "v", "i", "a", " ", "X">>, <<"N", "A", "T", "O", " ", "v", "i", "a", " ", "X">>)>>
      [] OTHER -> <<>>

\* content.matchAll(pattern): the matches in the order of the text.
RECURSIVE MatchAll(_, _)
MatchAll(text, type) ==
    IF text = <<>> THEN <<>>
    ELSE PhraseMatches(Head(text), type) \o MatchAll(Tail(text), type)

\* String.prototype.toLowerCase on the characters the names are made of.
LowerChar(c) ==
    CASE c = "A" -> "a" [] c = "P" -> "p" [] c = "X" -> "x" [] c = "N" -> "n"
      [] c = "T" -> "t" [] c = "O" -> "o" [] c = "D" -> "d" [] c = "I" -> "i"
      [] OTHER -> c

LowerCaseOf(name) == [k \in 1..Len(name) |-> LowerChar(name[k])]

\* [\s,."']
Trimmed == {" ", ",", ".", "\"", "'"}

\* The text without its leading characters of the set Strip.
RECURSIVE DropLeading(_, _)
DropLeading(text, Strip) ==
    IF text # <<>> /\ Head(text) \in Strip THEN DropLeading(Tail(text), Strip) ELSE text

\* The text without its trailing characters of the set Strip.
RECURSIVE DropTrailing(_, _)
DropTrailing(text, Strip) ==
    IF text # <<>> /\ text[Len(text)] \in Strip
    THEN DropTrailing(SubSeq(text, 1, Len(text) - 1), Strip)
    ELSE text

\* The alternatives of the second replace, in their order.
Boilerplate ==
    <<<<"r", "e", "p", "o", "r", "t", "e", "d", " ", "b", "y">>,
      <<"a", "c", "c", "o", "r", "d", "i", "n", "g", " ", "t", "o">>,
      <<"s", "o", "u", "r", "c", "e", "s", " ", "f", "r", "o", "m">>,
      <<"r", "e", "p", "o", "r", "t", "e", "d", " ", "o", "n">>,
      <<"p", "o", "s", "t", "e", "d", " ", "o", "n">>,
      <<"v", "i", "a">>,
      <<"t", "h", "r", "o", "u", "g", "h">>,
      <<"i", "n">>>>

IsPrefix(prefix, text) ==
    Len(prefix) <= Len(text) /\ SubSeq(text, 1, Len(prefix)) = prefix

\* replace(/(reported by|...|via|through|in)/gi, ''): every occurrence is
\* removed, scanning from the left.
RECURSIVE RemoveBoilerplate(_)
RemoveBoilerplate(text) ==
    IF text = <<>> THEN <<>>
    ELSE LET found == { k \in 1..Len(Boilerplate) : IsPrefix(Boilerplate[k], LowerCaseOf(text)) }
         IN  IF found # {}
             THEN LET k == CHOOSE j \in found : \A other \in found : j <= other
                  IN  RemoveBoilerplate(SubSeq(text, Len(Boilerplate[k]) + 1, Len(text)))
             ELSE <<Head(text)>> \o RemoveBoilerplate(Tail(text))

\* The clean-up of a matched source text.
CleanSource(source) ==
    LET stripped == DropTrailing(DropLeading(source, Trimmed), Trimmed)
        removed == RemoveBoilerplate(stripped)
    IN  DropTrailing(DropLeading(removed, WhiteSpace), WhiteSpace)

\* The text the code takes from a match: match[0] for the agency and website
\* patterns, match[1] || match[0] for the patterns with a capturing group.
SourceOf(type, match) ==
    IF type \in {"Major News Agency", "News Website"} THEN match.whole
    ELSE IF match.group # <<>> THEN match.group
    ELSE match.whole

\* The confidence given to a source of a type.
ConfidenceOf(type) ==
    IF type = "Major News Agency" THEN "High"
    ELSE IF type = "Official Source" THEN "High"
    ELSE IF type = "News Website" THEN "Medium"
    ELSE "Low"

\* confidenceOrder of the sort comparator.
ConfidenceOrder(confidence) ==
    CASE confidence = "High" -> 3 [] confidence = "Medium" -> 2 [] confidence = "Low" -> 1

\* Variant that compares the names as they are written.
DedupeKeyExact(source) == source

\* The key under which processedSources remembers a source.
DedupeKey(source) == LowerCaseOf(source)

\* The body of the for loop for one match: the state is the sources array and
\* the processedSources set.
AddMatch(state, type, match) ==
    LET source == CleanSource(SourceOf(type, match))
    IN  IF source # <<>> /\ DedupeKey(source) \notin state.processedSources
        THEN [sources |-> Append(state.sources,
                                 [name |-> source, type |-> type, confidence |-> ConfidenceOf(type)]),
              processedSources |-> state.processedSources \cup {DedupeKey(source)}]
        ELSE state

\* The for loop over the matches of one pattern.
RECURSIVE AddMatches(_, _, _)
AddMatches(state, type, matches) ==
    IF matches = <<>> THEN state
    ELSE AddMatches(AddMatch(state, type, Head(matches)), type, Tail(matches))

\* sourcePatterns.forEach from the k-th pattern on.
RECURSIVE ForEachPattern(_, _, _)
ForEachPattern(state, text, k) ==
    IF k > Len(PatternTypes) THEN state
    ELSE ForEachPattern(AddMatches(state, PatternTypes[k], MatchAll(text, PatternTypes[k])),
                        text, k + 1)

\* One step of a stable sort with the comparator of the code: the entry goes
\* behind every entry whose confidence is not lower than its own.
RECURSIVE InsertSorted(_, _)
InsertSorted(sorted, entry) ==
    IF sorted = <<>> THEN <<entry>>
    ELSE IF ConfidenceOrder(Head(sorted).confidence) >= ConfidenceOrder(entry.confidence)
    THEN <<Head(sorted)>> \o InsertSorted(Tail(sorted), entry)
    ELSE <<entry>> \o sorted

\* sources.sort(comparator); Array.prototype.sort is stable.
RECURSIVE SortByConfidence(_)
SortByConfidence(sources) ==
    IF sources = <<>> THEN <<>>
    ELSE InsertSorted(SortByConfidence(SubSeq(sources, 1, Len(sources) - 1)),
                      sources[Len(sources)])

extractNewsSource(text) ==
    SortByConfidence(ForEachPattern([sources |-> <<>>, processedSources |-> {}], text, 1).sources)

-----------------------------------------------------------------------------
(* The helper functions called on their own: one call, from the initial      *)
(* state, with arguments drawn from bounded sets                             *)

\* The words the texts given to calculateSimilarity are made of.
Vocabulary == {"go", "Go", "news", "breaking", "Breaking"}

\* The texts of at most n words; <<>> is the empty string.
Texts(n) == UNION { [1..k -> Vocabulary] : k \in 0..n }

\* calculateSimilarity(str1, str2) is called and returns.
CallCalculateSimilarity(str1, str2) ==
    /\ call = NoCall
    /\ call' = [fn |-> "calculateSimilarity",
                args |-> <<str1, str2>>,
                ret |-> calculateSimilarity(str1, str2)]
    /\ UNCHANGED <<rc, pc, content, mistral, news, responses>>

\* The pieces the texts given to calculateTextComplexity are made of: a short
\* word, a word of ten letters, a connective, a space and a full stop.
Chunks ==
    { <<"a">>,
      <<"a", "a", "a", "a", "a", "a", "a", "a", "a", "a">>,
      <<"h", "o", "w", "e", "v", "e", "r">>,
      <<" ">>,
      <<".">> }

\* The non-empty texts made of at most n chunks.
RECURSIVE ChunkTexts(_)
ChunkTexts(n) ==
    IF n = 1 THEN Chunks
    ELSE ChunkTexts(n - 1) \cup { text \o chunk : text \in ChunkTexts(n - 1), chunk \in Chunks }

\* calculateTextComplexity(text) is called and returns.
CallCalculateTextComplexity(text) ==
    /\ call = NoCall
    /\ call' = [fn |-> "calculateTextComplexity",
                args |-> <<text>>,
                ret |-> calculateTextComplexity(text)]
    /\ UNCHANGED <<rc, pc, content, mistral, news, responses>>

\* The phrases the texts given to extractNewsSource are made of.
Phrases ==
    { "AP.", "ap.", "cited by 'AP'.", "posted on X.", "bbc.com.",
      "statement from NATO.", "local news Daily.", "revealed by NATO via X." }

\* The texts of one to n phrases.
PhraseTexts(n) == UNION { [1..k -> Phrases] : k \in 1..n }

\* extractNewsSource(content) is called twice on the same text.
CallExtractNewsSource(text) ==
    /\ call = NoCall
    /\ call' = [fn |-> "extractNewsSource",
                args |-> <<text>>,
                ret |-> extractNewsSource(text),
                again |-> extractNewsSource(text)]
    /\ UNCHANGED <<rc, pc, content, mistral, news, responses>>

NextHelpers ==
    \/ \E str1 \in Texts(MaxWords) : \E str2 \in Texts(MaxWords) :
           CallCalculateSimilarity(str1, str2)
    \/ \E text \in ChunkTexts(MaxChunks) : CallCalculateTextComplexity(text)
    \/ \E text \in PhraseTexts(MaxPhrases) : CallExtractNewsSource(text)

SpecHelpers == Init /\ [][NextHelpers]_vars

-----------------------------------------------------------------------------
(* Properties of retryWithTimeout, checked under SpecRetry *)

Started(r) == r.state # "idle"

Finished(r) == r.state \in {"returned", "thrown"}

LastAttempt(r) == r.attempts[Len(r.attempts)]

\* C1: for every maxRetries >= 1, retryWithTimeout invokes the operation at
\* most maxRetries times; it returns the response of the first attempt that
\* succeeds and makes no attempt after it (every attempt but the latest has
\* failed); when all maxRetries attempts fail it throws the error of the last
\* attempt.
C1_AttemptsAndResult ==
    \A c \in Callers :
        LET r == rc[c]
        IN  Started(r) =>
              /\ Len(r.attempts) <= r.maxRetries
              /\ \A k \in 1..(Len(r.attempts) - 1) : r.attempts[k].outcome = "failed"
              /\ r.state = "returned" =>
                    /\ LastAttempt(r).outcome = "ok"
                    /\ r.result = LastAttempt(r).value
                    /\ r.result.attempt = Len(r.attempts) - 1
              /\ r.state = "thrown" =>
                    /\ Len(r.attempts) = r.maxRetries
                    /\ LastAttempt(r).outcome = "failed"
                    /\ r.result = LastAttempt(r).value
                    /\ r.result.attempt = r.maxRetries - 1
              /\ LastAttempt(r).outcome = "ok" => r.state = "returned"

\* Every attempt failed, the first and the last with different errors.
C1_Witness ==
    \E c \in Callers :
        /\ rc[c].state = "thrown"
        /\ rc[c].maxRetries >= 3
        /\ rc[c].attempts[1].value.message = "Network Error"
        /\ rc[c].result.message = "canceled"

\* min(1000 * 2^i, 5000) for i = 0, 1, 2, ... written out.
ExpectedDelay(i) ==
    CASE i = 0 -> 1000
      [] i = 1 -> 2000
      [] i = 2 -> 4000
      [] OTHER -> 5000

\* C2: after failed attempt i (0-based) that is not the last one the caller
\* waits min(1000 * 2^i, 5000) ms and only then starts attempt i + 1; nothing
\* is waited after the final failed attempt or after a success.
C2_BackoffDelays ==
    \A c \in Callers :
        LET r == rc[c]
        IN  Started(r) =>
              /\ \A k \in 1..Len(r.waited) : r.waited[k] = ExpectedDelay(k - 1)
              /\ Len(r.waited) = Len(r.attempts) - 1
              /\ r.state = "backoff" =>
                    /\ r.backoff = ExpectedDelay(r.i)
                    /\ Len(r.attempts) = r.i + 1
                    /\ r.i < r.maxRetries - 1
              /\ r.state # "backoff" => r.backoff = 0
              /\ r.state = "await" => Len(r.waited) = r.i

\* A call that succeeded on its fifth attempt, after waiting four times.
C2_Witness ==
    \E c \in Callers :
        /\ rc[c].state = "returned"
        /\ Len(rc[c].waited) = 4
        /\ rc[c].waited[4] = 5000

\* C3: an attempt still in flight when its timeout expires is aborted at that
\* moment, so no attempt is pending with its timeout expired; and once an
\* attempt has finished, by success or by failure, its timeout timer is no
\* longer armed.
C3_NoPendingWork ==
    \A c \in Callers :
        LET r == rc[c]
        IN  /\ r.state = "await" => r.i \in r.timers /\ r.i \notin r.aborted
            /\ \A k \in r.timers : r.state = "await" /\ r.i = k

-----------------------------------------------------------------------------
(* Properties of checkContent, checked under Spec *)

Dispatched ==
    \/ \E c \in Callers : Started(rc[c])
    \/ mistral.calls > 0
    \/ news.calls > 0

ClassifierFailed == \E c \in Callers : rc[c].state = "thrown"

ClassifierSucceeded == \A c \in Callers : rc[c].state = "returned"

IsErrorObject(response) ==
    /\ response.status = 500
    /\ DOMAIN response.body = {"error", "details", "retryAfter"}

IsReport(response) == "combinedMetrics" \in DOMAIN response.body

\* C4: when the submitted content is empty or missing, checkContent answers
\* 400 with the InvalidInput error and never starts a Classifier, Generative
\* Assessor or News Verifier call for that request.
C4_EmptyInputRejected ==
    (pc # "idle" /\ content = NoContent) =>
        /\ pc = "rejected"
        /\ responses = <<InvalidInputResponse>>
        /\ ~Dispatched

C4_Witness == pc = "rejected" /\ content = NoContent /\ Len(responses) = 1

\* C5: if a Classifier call or the Generative Assessor call ends in failure,
\* the submission is Failed: exactly one response has been sent, it is the
\* error object (error, details, retryAfter), and no report is ever sent.
C5_FailureMeansNoReport ==
    (pc # "idle" /\ (ClassifierFailed \/ mistral.state = "rejected")) =>
        /\ pc = "failed"
        /\ Len(responses) = 1
        /\ IsErrorObject(responses[1])
        /\ ~IsReport(responses[1])

\* The factuality call exhausted its three attempts while everything else
\* succeeded.
C5_Witness ==
    /\ rc["factCheck"].state = "thrown"
    /\ rc["newsClassification"].state = "returned"
    /\ mistral.state = "fulfilled"
    /\ news.state = "fulfilled"
    /\ pc = "failed"

\* The failures of the News Verifier: a network error, an empty keyword set,
\* no results, or a malformed result.
NewsFailure ==
    \/ news.response.kind = "error"
    \/ news.q = <<>>
    \/ news.response.status # "ok"
    \/ ~news.response.hasArticles
    \/ Len(news.response.articles) = 0
    \/ \E k \in 1..Len(news.response.articles) : ~news.response.articles[k].hasSource

IsDegraded(value) ==
    /\ value.isVerified = FALSE
    /\ value.confidence = 0
    /\ value.matchedArticles = <<>>

\* C6: a failure inside the News Verifier never leaves verifyWithNewsAPI, which
\* then resolves with isVerified = false, confidence = 0, matchedArticles = [];
\* and when both Classifier calls and the Generative Assessor succeed, the
\* submission is Completed with a report whatever the News Verifier's outcome.
C6_NewsNeverFails ==
    /\ news.state # "rejected"
    /\ (news.state = "fulfilled" /\ NewsFailure) => IsDegraded(news.value)
    /\ (ClassifierSucceeded /\ mistral.state = "fulfilled" /\ news.state = "fulfilled") =>
          /\ pc = "completed"
          /\ Len(responses) = 1
          /\ IsReport(responses[1])

\* C7: the fusion step never starts before the outcomes of both Classifier
\* calls, the Generative Assessor call and the News Verifier call are all
\* available.  The fusion step has started when the report was sent or when
\* it failed on a missing result.
C7_FusionAfterAllOutcomes ==
    (\/ pc = "completed"
     \/ pc = "failed" /\ responses[1].body.details = "TypeError") =>
        /\ ClassifierSucceeded
        /\ mistral.state = "fulfilled"
        /\ news.state = "fulfilled"

\* A report sent after all four calls succeeded, the News Verifier last of all.
C7_Witness ==
    /\ pc = "completed"
    /\ Len(responses) = 1
    /\ IsReport(responses[1])
    /\ responses[1].body.newsVerification.isVerified

AllSettled ==
    /\ \A c \in Callers : Finished(rc[c])
    /\ mistral.state \in {"fulfilled", "rejected"}
    /\ news.state \in {"fulfilled", "rejected"}

\* C8: the orchestrator leaves Merging, to Completed or to Failed, only after
\* all adapter calls have settled: no response is sent while a sibling call is
\* still in flight or retrying.
C8_RespondsAfterAllSettled ==
    pc \in {"completed", "failed"} => AllSettled

\* C9: the Generative Assessor call is made through the Resilient Caller: when
\* it fails, it has been attempted three times before the submission is Failed.
C9_AssessorRetried ==
    (pc = "failed" /\ mistral.state = "rejected") => mistral.calls = DefaultMaxRetries

InRange(x) == x \in 0..100

\* C10: in every report checkContent sends, credibilityScore, truthScore,
\* confidence and newsReliability of combinedMetrics are integers in [0,100].
C10_CombinedMetricsInRange ==
    \A k \in 1..Len(responses) :
        IsReport(responses[k]) =>
            LET m == responses[k].body.combinedMetrics
            IN  /\ InRange(m.credibilityScore)
                /\ InRange(m.truthScore)
                /\ InRange(m.confidence)
                /\ InRange(m.newsReliability)

-----------------------------------------------------------------------------
(* Properties of the fusion step, checked under SpecFusion *)

FactData == rc["factCheck"].result.data

HasAllLabels(data) == \A label \in ExpectedLabels : IndexOf(data.labels, label) >= 0

\* C11: if the factuality response lacks one of the expected labels (factual,
\* misleading, false, opinion), the submission fails with an error and no
\* report is sent: the missing label never enters the score computation.
C11_MissingLabelFails ==
    (AllSettled /\ rc["factCheck"].state = "returned" /\ ~HasAllLabels(FactData)) =>
        /\ pc = "failed"
        /\ \A k \in 1..Len(responses) : ~IsReport(responses[k])

\* clamp(x, 0, 100) of a value given in thousandths.
ClampThousandths(x) == Max(0, Min(100000, x))

\* factual * 100 - misleading * 50 - false * 100 + 50, clamped, in thousandths
\* and not rounded.
UnroundedCredibility(data) ==
    ClampThousandths(100 * ScoreAt(data.scores, IndexOf(data.labels, "factual"))
                     - 50 * ScoreAt(data.scores, IndexOf(data.labels, "misleading"))
                     - 100 * ScoreAt(data.scores, IndexOf(data.labels, "false"))
                     + 50000)

\* factual * 100 - false * 100 + 50, clamped, in thousandths and not rounded.
UnroundedTruth(data) ==
    ClampThousandths(100 * ScoreAt(data.scores, IndexOf(data.labels, "factual"))
                     - 100 * ScoreAt(data.scores, IndexOf(data.labels, "false"))
                     + 50000)

\* C14: each combined score is rounded exactly once: the combined credibility
\* and truth scores of a report are round(local * 0.6 + external * 0.4), where
\* local is the clamped local score before any rounding.
C14_RoundedOnce ==
    (pc = "completed" /\ HasAllLabels(FactData)) =>
        LET m == responses[1].body.combinedMetrics
        IN  /\ m.credibilityScore =
                 Round(6 * UnroundedCredibility(FactData) + 4000 * mistral.value.credibilityScore, 10000)
            /\ m.truthScore =
                 Round(6 * UnroundedTruth(FactData) + 4000 * mistral.value.truthScore, 10000)

-----------------------------------------------------------------------------
(* Properties of the helper functions, checked under SpecHelpers *)

\* The set of case-folded words of a text.
FoldedWords(text) == { ToLowerCase(text[k]) : k \in 1..Len(text) }

\* C12: calculateSimilarity(a, a) = 1 for every non-empty text a, repeated
\* words included; calculateSimilarity(a, "") = 0 for every a; and in general
\* the value is |words(a) \cap words(b)| / |words(a) \cup words(b)| over the
\* sets of case-folded words, hence within [0,1].  The value is the fraction
\* ret[1] / ret[2].
C12_SimilarityIsJaccard ==
    call.fn = "calculateSimilarity" =>
        LET a == call.args[1]
            b == call.args[2]
            ret == call.ret
        IN  /\ (a = b /\ a # <<>>) => ret[1] = ret[2]
            /\ b = <<>> => ret[1] = 0
            /\ (a # <<>> /\ b # <<>>) =>
                   ret[1] * Cardinality(FoldedWords(a) \cup FoldedWords(b))
                     = Cardinality(FoldedWords(a) \cap FoldedWords(b)) * ret[2]
            /\ 0 <= ret[1]
            /\ ret[1] <= ret[2]

\* C15: for every accepted (non-empty) text that has no word or no sentence,
\* such as a text of white space only or of punctuation only,
\* calculateTextComplexity returns 0 instead of dividing by zero; and for
\* every text the value lies in [0,1].  The value is the quotient
\* ret[1] / ret[2].
C15_ComplexityGuarded ==
    call.fn = "calculateTextComplexity" =>
        LET text == call.args[1]
            ret == call.ret
        IN  /\ (\/ SplitNonEmpty(text, WhiteSpace) = <<>>
                \/ SplitNonEmpty(text, SentenceEnd) = <<>>) =>
                   ret[1] = 0 /\ ret[2] > 0
            /\ ret[2] > 0
            /\ 0 <= ret[1]
            /\ ret[1] <= ret[2]

\* Every source text the patterns find in a text, cleaned, in the order in
\* which the code meets them.
RECURSIVE Candidates(_, _)
Candidates(text, k) ==
    IF k > Len(PatternTypes) THEN <<>>
    ELSE LET matches == MatchAll(text, PatternTypes[k])
         IN  [j \in 1..Len(matches) |-> CleanSource(SourceOf(PatternTypes[k], matches[j]))]
             \o Candidates(text, k + 1)

\* The position at which a name, ignoring case, is first matched.
FirstMatched(text, name) ==
    LET candidates == Candidates(text, 1)
    IN  CHOOSE k \in 1..Len(candidates) :
            /\ LowerCaseOf(candidates[k]) = LowerCaseOf(name)
            /\ \A j \in 1..(k - 1) : LowerCaseOf(candidates[j]) # LowerCaseOf(name)

====
